---- MODULE Spec2Model ----
(***************************************************************************)
(* A model of torch_mutual_information/rnnt.py: the construction of the    *)
(* px/py log-probability tensors of the RNN-T loss (unpruned and pruned),  *)
(* the pruning gather, the per-row circular shift, and the adjustment of   *)
(* the pruning lower bounds.                                               *)
(*                                                                         *)
(* Tensors are functions over 0-based index ranges, nested one level per   *)
(* dimension: a tensor of shape (B, T) is a function in                    *)
(* [0..B-1 -> [0..T-1 -> Int]].  Logits are integers.                      *)
(***************************************************************************)
EXTENDS Integers, Sequences, FiniteSets, TLC

VARIABLES
    s_arg,      \* adjust_pruning_lower_bound: the argument s_begin at entry
    s_begin,    \* adjust_pruning_lower_bound: the local s_begin
    s_range,    \* adjust_pruning_lower_bound: the argument s_range
    ranges,     \* get_pruning_ranges: the local ranges (<<>> until built)
    pc,         \* the line about to be executed
    log,        \* the statements executed so far, in order
    call,       \* the operation being called and its argument tensors
    ret,        \* what the call returned or raised (NoRet until it has)
    first       \* what the first of two calls in a row returned: px, py of
                \* rnnt_test.py line 26, the ranges handed on by a caller of
                \* get_pruning_ranges (NoRet until there is one)

vars == <<s_arg, s_begin, s_range, ranges, pc, log, call, ret, first>>

adjustVars == <<s_arg, s_begin, s_range, ranges, log>>
callVars == <<call, ret, first>>

----------------------------------------------------------------------------
(* Bounds of the model.                                                    *)

\* the largest number of (batch, frame) cells of an s_begin tensor
MaxCells == 4
\* the largest symbol position an entry of s_begin holds at entry
MaxSym == 3
\* the largest s_range
MaxRange == 3
\* the constructors' tensors: batch * frames and batch * symbols at most this
MaxLen == 2
\* the largest number of classes C
MaxC == 2
\* the largest shift handed to roll_by_shifts
MaxShift == 3
\* get_pruning_ranges: batch * symbols * frames of the gradients at most this
MaxGradCells == 6
\* the largest entry of px_grad
MaxGrad == 1
\* get_pruning_ranges: the largest number S of symbols
MaxGradSym == 3
\* get_pruning_ranges: the largest number T of frames
MaxGradFrames == 2

----------------------------------------------------------------------------
(* Small helpers on tensors.                                               *)

Idx(n) == 0 .. (n - 1)

Size(x) == Cardinality(DOMAIN x)

Min2(a, b) == IF a <= b THEN a ELSE b

\* no operation is being called; nothing has been returned
NoCall == [op |-> "none"]
NoRet == [ok |-> FALSE, val |-> <<"none", 0>>]

----------------------------------------------------------------------------
(* adjust_pruning_lower_bound, rnnt.py lines 246-258, and the tail of      *)
(* get_pruning_ranges, lines 286-288.                                      *)

\* the largest value of torch.int32
Int32Max == 2147483647

\* x.to(torch.int32) of one entry: values above the int32 range wrap around.
ToInt32(x) == IF x > Int32Max THEN ((x - Int32Max) - 1) - Int32Max - 1 ELSE x

\* k2.monotonic_lower_bound on one row, as the docstring describes it:
\* traverse the row in reverse order, keeping the running minimum.
MonotonicLowerBoundRow(row) ==
    LET T == Size(row)
        out[i \in Idx(T)] ==
            IF i = T - 1 THEN row[i] ELSE Min2(row[i], out[i + 1])
    IN  out

\* k2.monotonic_lower_bound(s.to(torch.int32)) on a (B, T) tensor
MonotonicLowerBound(s) ==
    [b \in DOMAIN s |->
        MonotonicLowerBoundRow([t \in DOMAIN s[b] |-> ToInt32(s[b][t])])]

\* the transformation with the stride s_range in place of s_range - 1
TransformTensor_FullStride(s, r) ==
    [b \in DOMAIN s |-> [t \in DOMAIN s[b] |-> -(s[b][t] - r * t)]]

\* -(s - (r - 1) * torch.arange(0, T))
TransformTensor(s, r) ==
    [b \in DOMAIN s |-> [t \in DOMAIN s[b] |-> -(s[b][t] - (r - 1) * t)]]

\* the clamp left out
ClampTensor_Skipped(s) == s

\* torch.where(s < 0, 0, s)
ClampTensor(s) ==
    [b \in DOMAIN s |-> [t \in DOMAIN s[b] |->
        IF s[b][t] < 0 THEN 0 ELSE s[b][t]]]

\* s_begin.reshape((B, T, 1)).expand((B, T, s_range)) + torch.arange(s_range)
RangesOf(s, r) ==
    [b \in DOMAIN s |-> [t \in DOMAIN s[b] |-> [i \in Idx(r) |-> s[b][t] + i]]]

\* the body with the clamp moved before the second pass
StmtAt_ClampBeforeSecondPass(line) ==
    CASE line = "L249" -> "mono"
      [] line = "L251" -> "transform"
      [] line = "L253" -> "clamp"
      [] line = "L255" -> "mono"
      [] line = "L257" -> "transform"
      [] line = "L287" -> "ranges"
      [] OTHER         -> "return"

\* The statement at each line of the body, and the line that follows it.
StmtAt(line) ==
    CASE line = "L249" -> "mono"
      [] line = "L251" -> "transform"
      [] line = "L253" -> "mono"
      [] line = "L255" -> "clamp"
      [] line = "L257" -> "transform"
      [] line = "L287" -> "ranges"
      [] OTHER         -> "return"

NextLine(line) ==
    CASE line = "L249" -> "L251"
      [] line = "L251" -> "L253"
      [] line = "L253" -> "L255"
      [] line = "L255" -> "L257"
      [] line = "L257" -> "L287"
      [] OTHER         -> "L288"

\* the s_begin tensors handed to adjust_pruning_lower_bound
SBeginInputs ==
    UNION { [Idx(B) -> [Idx(T) -> 0 .. MaxSym]] :
            <<B, T>> \in { sh \in (1 .. MaxCells) \X (1 .. MaxCells) :
                           sh[1] * sh[2] <= MaxCells } }

InitAdjust ==
    /\ s_arg \in SBeginInputs
    /\ s_begin = s_arg
    /\ s_range \in 1 .. MaxRange
    /\ ranges = <<>>
    /\ pc = "L249"
    /\ log = <<>>
    /\ call = NoCall
    /\ ret = NoRet
    /\ first = NoRet

\* lines 249 and 253
Mono ==
    /\ StmtAt(pc) = "mono"
    /\ s_begin' = MonotonicLowerBound(s_begin)
    /\ pc' = NextLine(pc)
    /\ log' = Append(log, "mono")
    /\ UNCHANGED <<s_arg, s_range, ranges>>
    /\ UNCHANGED callVars

\* lines 251 and 257
Transform ==
    /\ StmtAt(pc) = "transform"
    /\ s_begin' = TransformTensor(s_begin, s_range)
    /\ pc' = NextLine(pc)
    /\ log' = Append(log, "transform")
    /\ UNCHANGED <<s_arg, s_range, ranges>>
    /\ UNCHANGED callVars

\* line 255
Clamp ==
    /\ StmtAt(pc) = "clamp"
    /\ s_begin' = ClampTensor(s_begin)
    /\ pc' = NextLine(pc)
    /\ log' = Append(log, "clamp")
    /\ UNCHANGED <<s_arg, s_range, ranges>>
    /\ UNCHANGED callVars

\* line 287
MakeRanges ==
    /\ StmtAt(pc) = "ranges"
    /\ ranges' = RangesOf(s_begin, s_range)
    /\ pc' = NextLine(pc)
    /\ log' = Append(log, "ranges")
    /\ UNCHANGED <<s_arg, s_begin, s_range>>
    /\ UNCHANGED callVars

NextAdjust == Mono \/ Transform \/ Clamp \/ MakeRanges

SpecAdjust == InitAdjust /\ [][NextAdjust]_vars

----------------------------------------------------------------------------
(* Log-domain values.  An entry of px or py is either -infinity or the     *)
(* real number  off - log(sum of e^x over the bag exps [+ 1.0e-20]),       *)
(* kept as a record.  exps maps each exponent to the number of times it    *)
(* occurs.  A plain number x is x - log(e^0).  Values without the 1.0e-20  *)
(* term are kept with their largest exponent at 0, which makes the record  *)
(* of a real number unique (e is transcendental), so that equality of      *)
(* records is equality of the numbers.                                     *)

NegInf == [inf |-> TRUE, off |-> 0, exps |-> <<>>, eps |-> FALSE]

Fin(off, exps, eps) == [inf |-> FALSE, off |-> off, exps |-> exps, eps |-> eps]

\* the plain number x
Real(x) == Fin(x, (0 :> 1), FALSE)

\* the largest element of a non-empty set of integers
MaxOfSet(S) == CHOOSE m \in S : \A x \in S : x <= m

\* the bag of the values of a function
BagOf(f) ==
    [x \in { f[c] : c \in DOMAIN f } |-> Cardinality({ c \in DOMAIN f : f[c] = x })]

\* off - log(sum e^x) = (off - m) - log(sum e^(x - m))
Canon(v) ==
    IF v.inf \/ v.eps THEN v
    ELSE LET m == MaxOfSet(DOMAIN v.exps)
         IN  Fin(v.off - m, [x \in { y - m : y \in DOMAIN v.exps } |-> v.exps[x + m]], FALSE)

\* torch.logsumexp of one row of integer logits: add + log(sum e^x), add = 0
LogSumExp(row) == [add |-> 0, exps |-> BagOf(row), eps |-> FALSE]

\* normalizer + x, for a number x
NormPlus(n, x) == [n EXCEPT !.add = @ + x]

\* v - normalizer, for a plain number or -infinity v
MinusNorm(v, n) ==
    IF v.inf THEN v ELSE Canon(Fin(v.off - n.add, n.exps, n.eps))

\* v + x for a number x: -infinity absorbs
PlusReal(v, x) == IF v.inf THEN v ELSE [v EXCEPT !.off = @ + x]

----------------------------------------------------------------------------
(* Tensor helpers: shapes, permute, cat, full, gather.                     *)

D0(x) == Size(x)
D1(x) == Size(x[0])
D2(x) == Size(x[0][0])

\* x.permute((0, 2, 1)) of a 3-D tensor
Permute021(x) ==
    [b \in DOMAIN x |-> [j \in Idx(D2(x)) |-> [i \in DOMAIN x[b] |-> x[b][i][j]]]]

\* torch.full((B, T, n), v)
Full3(B, T, n, v) == [b \in Idx(B) |-> [t \in Idx(T) |-> [j \in Idx(n) |-> v]]]

\* the second tensor put before the first
Cat2_Prepended(x, y) ==
    [b \in DOMAIN x |-> [t \in DOMAIN x[b] |->
        LET n == Size(y[b][t])
        IN  [j \in Idx(n + Size(x[b][t])) |->
                IF j < n THEN y[b][t][j] ELSE x[b][t][j - n]]]]

\* torch.cat((x, y), dim=2) of two 3-D tensors that agree on dims 0 and 1
Cat2(x, y) ==
    [b \in DOMAIN x |-> [t \in DOMAIN x[b] |->
        LET n == Size(x[b][t])
        IN  [j \in Idx(n + Size(y[b][t])) |->
                IF j < n THEN x[b][t][j] ELSE y[b][t][j - n]]]]

\* torch.max of a 4-D integer tensor
Max4(x) ==
    MaxOfSet({ x[b][t][s][c] : b \in DOMAIN x, t \in DOMAIN x[0],
               s \in DOMAIN x[0][0], c \in DOMAIN x[0][0][0] })

\* the results of a call: a value, or the exception raised and its line
Ok(v) == [ok |-> TRUE, val |-> v]
Raise(kind, line) == [ok |-> FALSE, val |-> <<kind, line>>]

----------------------------------------------------------------------------
(* roll_by_shifts, rnnt.py lines 347-353.                                  *)

\* the gather index of line 352 with the shift added instead of subtracted
RollIndex_Left(j, shift, S) == (j + shift) % S

\* line 352: index = (index - shifts.reshape(B, T, 1)) % S
RollIndex(j, shift, S) == (j - shift) % S

\* lines 348-353 on a (B, T, S) tensor and (B, T) shifts
RollRows(src, shifts) ==
    [b \in DOMAIN src |-> [t \in DOMAIN src[b] |->
        LET S == Size(src[b][t])
        IN  [j \in Idx(S) |-> src[b][t][RollIndex(j, shifts[b][t], S)]]]]

roll_by_shifts(src, shifts) ==
    IF ~(D0(shifts) = D0(src) /\ D1(shifts) = D1(src))
    THEN Raise("AssertionError", 349)
    ELSE Ok(RollRows(src, shifts))

----------------------------------------------------------------------------
(* get_rnnt_logprobs_joint, rnnt.py lines 164-188.                         *)

\* lines 169-172: logsumexp(joint - max_value, dim=3) + max_value, (B, T, S1)
JointNormalizers(joint) ==
    LET max_value == Max4(joint)
    IN  [b \in DOMAIN joint |-> [t \in DOMAIN joint[b] |-> [s \in DOMAIN joint[b][t] |->
            NormPlus(LogSumExp([c \in DOMAIN joint[b][t][s] |->
                                   joint[b][t][s][c] - max_value]),
                     max_value)]]]

\* lines 181, 184 and 394, 410: x - normalizers, entry by entry, where x has
\* at least the extent of the part of normalizers that is subtracted
MinusNormalizers(x, normalizers) ==
    [b \in DOMAIN x |-> [i \in DOMAIN x[b] |-> [j \in DOMAIN x[b][i] |->
        IF i \in DOMAIN normalizers[b] /\ j \in DOMAIN normalizers[b][i]
        THEN MinusNorm(x[b][i][j], normalizers[b][i][j])
        ELSE x[b][i][j]]]]

get_rnnt_logprobs_joint(joint, symbols, termination_symbol) ==
    LET B == D0(joint)
        T == D1(joint)
        S == D2(joint) - 1
    IN  IF ~(D0(symbols) = B /\ D1(symbols) = S)
        THEN Raise("AssertionError", 167)
        ELSE
        LET normalizers == Permute021(JointNormalizers(joint))
            \* line 175: gather the symbols' logits, (B, T, S)
            px0 == [b \in Idx(B) |-> [t \in Idx(T) |-> [s \in Idx(S) |->
                       Real(joint[b][t][s][symbols[b][s]])]]]
            \* lines 176-180
            px1 == Cat2(Permute021(px0), Full3(B, S, 1, NegInf))
            \* line 181: px[:, :, :T] -= normalizers[:, :S, :]
            px  == [b \in Idx(B) |-> [s \in Idx(S) |-> [t \in Idx(T + 1) |->
                       IF t < T THEN MinusNorm(px1[b][s][t], normalizers[b][s][t])
                       ELSE px1[b][s][t]]]]
            \* lines 183-184
            py0 == Permute021([b \in Idx(B) |-> [t \in Idx(T) |-> [s \in Idx(S + 1) |->
                       Real(joint[b][t][s][termination_symbol])]]])
            py  == MinusNormalizers(py0, normalizers)
        IN  Ok([px |-> px, py |-> py])

----------------------------------------------------------------------------
(* get_rnnt_logprobs_pruning, rnnt.py lines 376-425.                       *)

\* entries of an integer (B, T, R) index tensor all lie in 0 .. n - 1
IndexInRange(index, n) ==
    \A b \in DOMAIN index : \A t \in DOMAIN index[b] : \A i \in DOMAIN index[b][t] :
        0 <= index[b][t][i] /\ index[b][t][i] < n

get_rnnt_logprobs_pruning(joint, symbols, rngs, termination_symbol) ==
    LET Bj == D0(joint)
        T == D1(joint)
        S_range == D2(joint)
        \* line 379 rebinds B to the batch size of symbols
        B == D0(symbols)
        S == D1(symbols)
    IN  IF ~(D0(rngs) = Bj /\ D1(rngs) = T /\ D2(rngs) = S_range)
        THEN Raise("AssertionError", 378)
        \* line 389: gather needs index.size(0) <= input.size(0) and the
        \* indexes within the S + 1 positions of symbols_with_terminal
        ELSE IF ~(Bj <= B /\ IndexInRange(rngs, S + 1))
        THEN Raise("RuntimeError", 389)
        \* line 393: reshape of Bj*T*S_range entries to (B, T, S_range, 1)
        ELSE IF Bj # B
        THEN Raise("RuntimeError", 393)
        \* line 397: torch.full with the negative size S - S_range
        ELSE IF S - S_range < 0
        THEN Raise("RuntimeError", 397)
        ELSE
        LET normalizers == JointNormalizers(joint)
            \* lines 386-387
            symbols_with_terminal ==
                [b \in Idx(B) |-> [s \in Idx(S + 1) |->
                    IF s < S THEN symbols[b][s] ELSE termination_symbol]]
            \* lines 389-390
            pruning_symbols ==
                [b \in Idx(B) |-> [t \in Idx(T) |-> [i \in Idx(S_range) |->
                    symbols_with_terminal[b][rngs[b][t][i]]]]]
            \* lines 393-394
            px0 == MinusNormalizers(
                       [b \in Idx(B) |-> [t \in Idx(T) |-> [i \in Idx(S_range) |->
                           Real(joint[b][t][i][pruning_symbols[b][t][i]])]]],
                       normalizers)
            \* lines 396-399
            px1 == Cat2(px0, Full3(B, T, S - S_range, NegInf))
            shifts == [b \in Idx(B) |-> [t \in Idx(T) |-> rngs[b][t][0]]]
            \* line 402
            px2 == RollRows(px1, shifts)
            \* lines 403-407
            px  == Cat2(Permute021(px2), Full3(B, S, 1, NegInf))
            \* lines 409-410
            py0 == MinusNormalizers(
                       [b \in Idx(B) |-> [t \in Idx(T) |-> [i \in Idx(S_range) |->
                           Real(joint[b][t][i][termination_symbol])]]],
                       normalizers)
            \* lines 412-415
            py1 == Cat2(py0, Full3(B, T, (S + 1) - S_range, NegInf))
            \* lines 418-420
            py  == Permute021(RollRows(py1, shifts))
        IN  Ok([px |-> px, py |-> py])

----------------------------------------------------------------------------
(* get_rnnt_logprobs, rnnt.py lines 64-100.                                *)

\* torch.max(x, dim=2) of a 3-D integer tensor: (B, N)
MaxLast(x) ==
    [b \in DOMAIN x |-> [i \in DOMAIN x[b] |->
        MaxOfSet({ x[b][i][c] : c \in DOMAIN x[b][i] })]]

\* line 80 left out
AddBackMax_Forgotten(n, lm_max, am_max) == n

\* line 80: normalizers + lm_max + am_max.transpose(1, 2)
AddBackMax(n, lm_max, am_max) == NormPlus(NormPlus(n, lm_max), am_max)

\* lines 71-80 for one (b, s, t): log(sum_c exp(lm - lm_max) * exp(am - am_max)
\* + 1.0e-20), then the two maxima added back
SimpleNormalizer(lm_row, am_row, lm_max, am_max) ==
    AddBackMax([add  |-> 0,
                exps |-> BagOf([c \in DOMAIN lm_row |->
                                   (lm_row[c] - lm_max) + (am_row[c] - am_max)]),
                eps  |-> TRUE],
               lm_max, am_max)

get_rnnt_logprobs(lm, am, symbols, termination_symbol) ==
    IF ~(D0(lm) = D0(am) /\ D2(lm) = D2(am))
    THEN Raise("AssertionError", 64)
    ELSE
    LET B == D0(am)
        T == D1(am)
        S == D1(lm) - 1
    IN  IF ~(D0(symbols) = B /\ D1(symbols) = S)
        THEN Raise("AssertionError", 67)
        ELSE
        LET am_max == MaxLast(am)
            lm_max == MaxLast(lm)
            \* (B, S + 1, T)
            normalizers ==
                [b \in Idx(B) |-> [s \in Idx(S + 1) |-> [t \in Idx(T) |->
                    SimpleNormalizer(lm[b][s], am[b][t], lm_max[b][s], am_max[b][t])]]]
            \* lines 83-88
            px_am == Cat2([b \in Idx(B) |-> [s \in Idx(S) |-> [t \in Idx(T) |->
                              Real(am[b][t][symbols[b][s]])]]],
                          Full3(B, S, 1, NegInf))
            \* lines 90-92
            px0 == [b \in Idx(B) |-> [s \in Idx(S) |-> [t \in Idx(T + 1) |->
                       PlusReal(px_am[b][s][t], lm[b][s][symbols[b][s]])]]]
            \* line 93: px[:, :, :T] -= normalizers[:, :S, :]
            px  == [b \in Idx(B) |-> [s \in Idx(S) |-> [t \in Idx(T + 1) |->
                       IF t < T THEN MinusNorm(px0[b][s][t], normalizers[b][s][t])
                       ELSE px0[b][s][t]]]]
            \* lines 96-98
            py  == [b \in Idx(B) |-> [s \in Idx(S + 1) |-> [t \in Idx(T) |->
                       MinusNorm(Real(am[b][t][termination_symbol]
                                      + lm[b][s][termination_symbol]),
                                 normalizers[b][s][t])]]]
        IN  Ok([px |-> px, py |-> py])

----------------------------------------------------------------------------
(* pruning, rnnt.py lines 309-322.                                         *)

\* the class read from lm at a window slot, taken from the slot itself
LmPosition_Slot(rngs, b, t, i) == i

\* line 319-320: the index of the gather along dim 2 of lm
LmPosition(rngs, b, t, i) == rngs[b][t][i]

pruning(am, lm, rngs) ==
    IF ~(D0(rngs) = D0(am) /\ D0(rngs) = D0(lm))
    THEN Raise("AssertionError", 309)
    ELSE IF ~(D1(am) = D1(rngs))
    THEN Raise("AssertionError", 310)
    ELSE
    LET B == D0(rngs)
        T == D1(rngs)
        S_range == D2(rngs)
        S == D1(lm) - 1
        C == D2(lm)
    IN  \* line 316: expand keeps a dimension or broadcasts one of size 1
        IF ~(D2(am) = C \/ D2(am) = 1)
        THEN Raise("RuntimeError", 316)
        \* line 319: the gather indexes must lie in the S + 1 positions of lm
        ELSE IF ~IndexInRange(rngs, S + 1)
        THEN Raise("RuntimeError", 319)
        ELSE
        Ok([am_pruning |->
               [b \in Idx(B) |-> [t \in Idx(T) |-> [i \in Idx(S_range) |-> [c \in Idx(C) |->
                   am[b][t][IF D2(am) = C THEN c ELSE 0]]]]],
            lm_pruning |->
               [b \in Idx(B) |-> [t \in Idx(T) |-> [i \in Idx(S_range) |-> [c \in Idx(C) |->
                   lm[b][LmPosition(rngs, b, t, i)][c]]]]]])

----------------------------------------------------------------------------
(* The calls of the constructors, of pruning and of roll_by_shifts: each   *)
(* behaviour is one call, on argument tensors drawn from the sets below.   *)

\* k * torch.arange(B * T * C).reshape((B, T, C))
Arange3(k, B, T, C) ==
    [b \in Idx(B) |-> [t \in Idx(T) |-> [c \in Idx(C) |-> k * ((b * T + t) * C + c)]]]

\* k * torch.arange(B * T * S * C).reshape((B, T, S, C))
Arange4(k, B, T, S, C) ==
    [b \in Idx(B) |-> [t \in Idx(T) |-> [s \in Idx(S) |-> [c \in Idx(C) |->
        k * (((b * T + t) * S + s) * C + c)]]]]

\* the factors k of the logit tensors: constant logits and distinct logits
Strides == {0, 1}

\* the shapes (B, T, S)
Shapes ==
    { sh \in (1 .. MaxLen) \X (1 .. MaxLen) \X (1 .. MaxLen) :
        sh[1] * sh[2] <= MaxLen /\ sh[1] * sh[3] <= MaxLen }

Classes == 2 .. MaxC

\* the (B, S) tensors of symbols in 0 .. C - 1
SymbolsOf(B, S, C) == [Idx(B) -> [Idx(S) -> Idx(C)]]

\* the (B, T, R) tensors of contiguous windows of width R inside 0 .. S
WindowsOf(B, T, R, S) ==
    { RangesOf(s0, R) : s0 \in [Idx(B) -> [Idx(T) -> 0 .. ((S + 1) - R)]] }

\* 1 when the argument tensors carry the named shape defect d, else 0
Bump(defect, d) == IF defect = d THEN 1 ELSE 0

\* x with a copy of its last slice appended along dim 0, when on
AppendCopy(x, on) ==
    IF on THEN [i \in Idx(Size(x) + 1) |-> IF i < Size(x) THEN x[i] ELSE x[Size(x) - 1]]
    ELSE x

\* x with a copy of its last slice appended along dim 1, when on
AppendCopy1(x, on) == [b \in DOMAIN x |-> AppendCopy(x[b], on)]

\* x without its last slice along dim 0, when on
DropLast(x, on) == IF on THEN [i \in Idx(Size(x) - 1) |-> x[i]] ELSE x

\* the initial states in which call is a call of get_rnnt_logprobs
InitLogprobs(defects, strides) ==
    \E sh \in Shapes, C \in Classes, d \in defects :
    \E sy \in SymbolsOf(sh[1], sh[3], C), k \in strides, term \in Idx(C) :
       call = [op |-> "get_rnnt_logprobs",
               lm |-> Arange3(k[1], sh[1] + Bump(d, "lm_batch"), sh[3] + 1,
                              C + Bump(d, "lm_class")),
               am |-> Arange3(k[2], sh[1], sh[2], C),
               symbols |-> AppendCopy1(AppendCopy(sy, d = "symbols_batch"),
                                       d = "symbols_len"),
               termination_symbol |-> term]

\* the initial states in which call is a call of get_rnnt_logprobs_joint
InitJoint ==
    \E sh \in Shapes, C \in Classes, d \in {"none", "symbols_batch", "symbols_len"} :
    \E sy \in SymbolsOf(sh[1], sh[3], C), k \in Strides, term \in Idx(C) :
       call = [op |-> "get_rnnt_logprobs_joint",
               joint |-> Arange4(k, sh[1], sh[2], sh[3] + 1, C),
               symbols |-> AppendCopy1(AppendCopy(sy, d = "symbols_batch"),
                                       d = "symbols_len"),
               termination_symbol |-> term]

\* the initial states in which call is a call of get_rnnt_logprobs_pruning;
\* the pruned joint has s_range = R in 1 .. S + 1 window slots
InitPruningLogprobs ==
    \E sh \in Shapes, R \in 1 .. (MaxLen + 1), C \in Classes,
       d \in {"none", "symbols_batch", "symbols_batch_short", "ranges_batch"} :
    \E sy \in SymbolsOf(sh[1], sh[3], C), w \in WindowsOf(sh[1], sh[2], R, sh[3]),
       k \in Strides, term \in Idx(C) :
       /\ d = "symbols_batch_short" => sh[1] >= 2
       /\ call = [op |-> "get_rnnt_logprobs_pruning",
                  joint |-> Arange4(k, sh[1], sh[2], R, C),
                  symbols |-> DropLast(AppendCopy(sy, d = "symbols_batch"),
                                       d = "symbols_batch_short"),
                  ranges |-> AppendCopy(w, d = "ranges_batch"),
                  termination_symbol |-> term]

\* the initial states in which call is a call of pruning
InitPruning ==
    \E sh \in Shapes, R \in 1 .. (MaxLen + 1), C \in Classes,
       d \in {"none", "am_frames", "am_class_one", "am_class", "lm_batch"} :
    \E w \in WindowsOf(sh[1], sh[2], R, sh[3]), k \in Strides \X Strides :
       call = [op |-> "pruning",
               am |-> Arange3(k[1], sh[1], sh[2] + Bump(d, "am_frames"),
                              IF d = "am_class_one" THEN 1 ELSE C + Bump(d, "am_class")),
               lm |-> Arange3(k[2], sh[1] + Bump(d, "lm_batch"), sh[3] + 1, C),
               ranges |-> w]

\* the example of the docstring of roll_by_shifts, lines 334-345
DocSrc == Arange3(1, 1, 3, 5)
DocShift == [b \in Idx(1) |-> [t \in Idx(3) |-> t + 1]]
DocRolled ==
    [b \in Idx(1) |-> [t \in Idx(3) |-> [j \in Idx(5) |->
        << <<4, 0, 1, 2, 3>>, <<8, 9, 5, 6, 7>>, <<12, 13, 14, 10, 11>> >>[t + 1][j + 1]]]]

\* the initial states in which call is a call of roll_by_shifts
InitRoll ==
    \/ call = [op |-> "roll_by_shifts", src |-> DocSrc, shifts |-> DocShift]
    \/ \E sh \in Shapes, W \in 1 .. (MaxLen + 1), d \in {"none", "shifts_frames"} :
       \E sf \in [Idx(sh[1]) -> [Idx(sh[2]) -> (-1) .. MaxShift]] :
          call = [op |-> "roll_by_shifts",
                  src |-> Arange3(1, sh[1], sh[2], W),
                  shifts |-> AppendCopy1(sf, d = "shifts_frames")]

Init ==
    /\ \/ InitLogprobs({"none", "lm_batch", "lm_class", "symbols_batch", "symbols_len"},
                       Strides \X Strides)
       \/ InitJoint
       \/ InitPruningLogprobs
       \/ InitPruning
       \/ InitRoll
    /\ ret = NoRet
    /\ first = NoRet
    /\ pc = "call"
    /\ s_arg = <<>> /\ s_begin = <<>> /\ s_range = 1 /\ ranges = <<>> /\ log = <<>>

\* each call returns or raises; no statement of the five writes to an
\* argument tensor
Return(result) ==
    /\ pc = "call"
    /\ ret' = result
    /\ pc' = "ret"
    /\ UNCHANGED <<call, first>>
    /\ UNCHANGED adjustVars

GetRnntLogprobs ==
    /\ call.op = "get_rnnt_logprobs"
    /\ Return(get_rnnt_logprobs(call.lm, call.am, call.symbols, call.termination_symbol))

GetRnntLogprobsJoint ==
    /\ call.op = "get_rnnt_logprobs_joint"
    /\ Return(get_rnnt_logprobs_joint(call.joint, call.symbols, call.termination_symbol))

GetRnntLogprobsPruning ==
    /\ call.op = "get_rnnt_logprobs_pruning"
    /\ Return(get_rnnt_logprobs_pruning(call.joint, call.symbols, call.ranges,
                                        call.termination_symbol))

Pruning ==
    /\ call.op = "pruning"
    /\ Return(pruning(call.am, call.lm, call.ranges))

RollByShifts ==
    /\ call.op = "roll_by_shifts"
    /\ Return(roll_by_shifts(call.src, call.shifts))

Next ==
    \/ GetRnntLogprobs
    \/ GetRnntLogprobsJoint
    \/ GetRnntLogprobsPruning
    \/ Pruning
    \/ RollByShifts

Spec == Init /\ [][Next]_vars

----------------------------------------------------------------------------
(* test_rnnt_logprobs_basic, rnnt_test.py lines 16-43: get_rnnt_logprobs,  *)
(* then a constant added to every row of lm and of am, then                *)
(* rnnt_loss_simple (rnnt.py line 127) on the changed tensors.             *)

\* a (B, N, C) tensor from a sequence of rows
Tensor3Of(rows) ==
    [b \in Idx(1) |-> [i \in Idx(Len(rows)) |-> [c \in Idx(Len(rows[i + 1])) |->
        rows[i + 1][c + 1]]]]

\* rnnt_test.py lines 16-24
TestCall ==
    [op |-> "get_rnnt_logprobs",
     lm |-> Tensor3Of(<< <<0, 0, 1>>, <<0, 1, 1>>, <<1, 0, 1>>, <<2, 2, 0>> >>),
     am |-> Tensor3Of(<< <<0, 1, 2>>, <<0, 0, 0>>, <<0, 2, 4>>, <<0, 3, 3>> >>),
     symbols |-> [b \in Idx(1) |-> [s \in Idx(3) |-> <<0, 1, 0>>[s + 1]]],
     termination_symbol |-> 2]

\* the constants added to a row (the test draws them with torch.randn)
RowConstants == {-1, 2}

\* x += c, with c of shape (B, N, 1)
AddPerRow(x, c) ==
    [b \in DOMAIN x |-> [i \in DOMAIN x[b] |-> [k \in DOMAIN x[b][i] |->
        x[b][i][k] + c[b][i]]]]

InitShift ==
    /\ \/ call = TestCall
       \/ InitLogprobs({"none"}, {<<1, 1>>})
    /\ ret = NoRet
    /\ first = NoRet
    /\ pc = "T26"
    /\ s_arg = <<>> /\ s_begin = <<>> /\ s_range = 1 /\ ranges = <<>> /\ log = <<>>

\* rnnt_test.py line 26
FirstLogprobs ==
    /\ pc = "T26"
    /\ first' = get_rnnt_logprobs(call.lm, call.am, call.symbols, call.termination_symbol)
    /\ pc' = "T38"
    /\ UNCHANGED <<call, ret>>
    /\ UNCHANGED adjustVars

\* rnnt_test.py lines 38-39
AddConstants ==
    /\ pc = "T38"
    /\ \E cl \in [DOMAIN call.lm -> [DOMAIN call.lm[0] -> RowConstants]] :
       \E ca \in [DOMAIN call.am -> [DOMAIN call.am[0] -> RowConstants]] :
          call' = [call EXCEPT !.lm = AddPerRow(@, cl), !.am = AddPerRow(@, ca)]
    /\ pc' = "T41"
    /\ UNCHANGED <<ret, first>>
    /\ UNCHANGED adjustVars

\* x with c added to the logits of row (b, i) alone
AddToRow(x, b, i, c) ==
    [x EXCEPT ![b][i] = [k \in DOMAIN @ |-> @[k] + c]]

\* lines 38-39 with a constant that is zero but for one row of lm
AddConstantToLmRow ==
    /\ pc = "T38"
    /\ \E b \in DOMAIN call.lm : \E s \in DOMAIN call.lm[b] : \E c \in RowConstants :
          call' = [call EXCEPT !.lm = AddToRow(@, b, s, c)]
    /\ pc' = "T41"
    /\ UNCHANGED <<ret, first>>
    /\ UNCHANGED adjustVars

\* lines 38-39 with a constant that is zero but for one row of am
AddConstantToAmRow ==
    /\ pc = "T38"
    /\ \E b \in DOMAIN call.am : \E t \in DOMAIN call.am[b] : \E c \in RowConstants :
          call' = [call EXCEPT !.am = AddToRow(@, b, t, c)]
    /\ pc' = "T41"
    /\ UNCHANGED <<ret, first>>
    /\ UNCHANGED adjustVars

\* rnnt_test.py line 41, rnnt.py line 127
RnntLossSimple ==
    /\ pc = "T41"
    /\ ret' = get_rnnt_logprobs(call.lm, call.am, call.symbols, call.termination_symbol)
    /\ pc' = "T43"
    /\ UNCHANGED <<call, first>>
    /\ UNCHANGED adjustVars

NextShift ==
    \/ FirstLogprobs
    \/ AddConstants
    \/ AddConstantToLmRow
    \/ AddConstantToAmRow
    \/ RnntLossSimple

SpecShift == InitShift /\ [][NextShift]_vars

----------------------------------------------------------------------------
(* get_pruning_ranges, rnnt.py lines 261-288, and a caller that hands the  *)
(* ranges it returns to get_rnnt_logprobs_pruning (lines 356-425) with a   *)
(* pruned joint and symbols of the same B, T, S and s_range.               *)

\* one statement of the body of adjust_pruning_lower_bound
ApplyStmt(stmt, s, r) ==
    CASE stmt = "mono"      -> MonotonicLowerBound(s)
      [] stmt = "transform" -> TransformTensor(s, r)
      [] stmt = "clamp"     -> ClampTensor(s)
      [] OTHER              -> s

RECURSIVE RunFrom(_, _, _)
\* lines 249-257 run from the given line to the return of line 258
RunFrom(line, s, r) ==
    IF StmtAt(line) \in {"mono", "transform", "clamp"}
    THEN RunFrom(NextLine(line), ApplyStmt(StmtAt(line), s, r), r)
    ELSE s

\* the call of line 286
adjust_pruning_lower_bound(s, r) == RunFrom("L249", s, r)

\* lines 278-280: tot_grad of shape (B, S + 1, T + 1), px_grad padded with a
\* zero row and py_grad with a zero column
TotGrad(px_grad, py_grad) ==
    LET B == D0(px_grad)
        S == D1(px_grad)
        T == D2(px_grad) - 1
    IN  [b \in Idx(B) |-> [s \in Idx(S + 1) |-> [t \in Idx(T + 1) |->
            (IF s < S THEN px_grad[b][s][t] ELSE 0)
            + (IF t < T THEN py_grad[b][s][t] ELSE 0)]]]

\* line 281: a row of zeros put in front along dim 1
ZeroRowFirst(x) ==
    [b \in DOMAIN x |-> [s \in Idx(Size(x[b]) + 1) |-> [t \in DOMAIN x[b][0] |->
        IF s = 0 THEN 0 ELSE x[b][s - 1][t]]]]

\* torch.cumsum(x, dim=1)
CumSum1(x) ==
    [b \in DOMAIN x |->
        LET acc[s \in DOMAIN x[b]] ==
                [t \in DOMAIN x[b][0] |->
                    IF s = 0 THEN x[b][0][t] ELSE acc[s - 1][t] + x[b][s][t]]
        IN  acc]

\* the slice that keeps every row of the cumulative sum
KeptRows_All(S) == S + 2

\* line 282: the rows kept by [:, :S+1, :]
KeptRows(S) == S + 1

\* x[:, :n, :]
Rows(x, n) == [b \in DOMAIN x |-> [s \in Idx(Min2(n, Size(x[b]))) |-> x[b][s]]]

\* line 283: tot_grad[:, s_range:, :] - tot_grad[:, 0:-s_range, :]
DiffGrad(x, r) ==
    [b \in DOMAIN x |-> [i \in Idx(Size(x[b]) - r) |-> [t \in DOMAIN x[b][0] |->
        x[b][i + r][t] - x[b][i][t]]]]

\* the index of the last maximal value
ArgMax_Last(col) ==
    CHOOSE i \in DOMAIN col :
        /\ \A j \in DOMAIN col : col[j] <= col[i]
        /\ \A j \in DOMAIN col : j > i => col[j] < col[i]

\* torch.argmax of one column: the index of the first maximal value
ArgMax(col) ==
    CHOOSE i \in DOMAIN col :
        /\ \A j \in DOMAIN col : col[j] <= col[i]
        /\ \A j \in DOMAIN col : j < i => col[j] < col[i]

\* lines 284-285: torch.argmax(diff_grad, dim=1)[:, :T]
ArgMax1(diff, T) ==
    [b \in DOMAIN diff |-> [t \in Idx(T) |->
        ArgMax([i \in DOMAIN diff[b] |-> diff[b][i][t]])]]

\* lines 278-285: s_begin before adjust_pruning_lower_bound
ChosenStarts(px_grad, py_grad, r) ==
    LET S == D1(px_grad)
        T == D2(px_grad) - 1
        tot_grad == Rows(CumSum1(ZeroRowFirst(TotGrad(px_grad, py_grad))), KeptRows(S))
    IN  ArgMax1(DiffGrad(tot_grad, r), T)

get_pruning_ranges(px_grad, py_grad, r) ==
    LET B == D0(px_grad)
        S == D1(px_grad)
        T == D2(px_grad) - 1
    IN  IF ~(D0(py_grad) = B /\ D1(py_grad) = S + 1 /\ D2(py_grad) = T)
        THEN Raise("AssertionError", 275)
        ELSE IF ~(r <= S)
        THEN Raise("AssertionError", 276)
        ELSE Ok(RangesOf(adjust_pruning_lower_bound(ChosenStarts(px_grad, py_grad, r), r), r))

\* the batch sizes of the gradients
GradBatches == {1, 2}

\* the B, S, T of the gradients
GradShapes ==
    { sh \in GradBatches \X (1 .. MaxGradSym) \X (1 .. MaxGradFrames) :
        sh[1] * sh[2] * sh[3] <= MaxGradCells }

\* px_grad of shape (B, S, T + 1) with the entries m at the frames below T
PxGradOf(m, T) ==
    [b \in DOMAIN m |-> [s \in DOMAIN m[b] |-> [t \in Idx(T + 1) |->
        IF t < T THEN m[b][s][t] ELSE MaxGrad]]]

\* py_grad of shape (B, S + 1, T): k times the symbol position, plus 1 on
\* every other cell when k is not 0
PyGradOf(k, B, S, T) ==
    [b \in Idx(B) |-> [s \in Idx(S + 1) |-> [t \in Idx(T) |->
        k * s + (IF k = 0 THEN 0 ELSE (b + s + t) % 2)]]]

\* gradients of every value in bounds with 1 <= s_range <= S, or zero
\* gradients with an argument that breaks a precondition of lines 275-276
InitRanges ==
    /\ \/ \E sh \in GradShapes :
          \E m \in [Idx(sh[1]) -> [Idx(sh[2]) -> [Idx(sh[3]) -> 0 .. MaxGrad]]],
             k \in (-1) .. MaxGrad, r \in 1 .. sh[2] :
             call = [op |-> "get_pruning_ranges",
                     px_grad |-> PxGradOf(m, sh[3]),
                     py_grad |-> PyGradOf(k, sh[1], sh[2], sh[3]),
                     s_range |-> r]
       \/ \E sh \in GradShapes, d \in {"py_frames", "s_range"} :
          \E r \in 1 .. sh[2] :
             call = [op |-> "get_pruning_ranges",
                     px_grad |-> PxGradOf(Arange3(0, sh[1], sh[2], sh[3]), sh[3]),
                     py_grad |-> PyGradOf(0, sh[1], sh[2], sh[3] + Bump(d, "py_frames")),
                     s_range |-> IF d = "s_range" THEN sh[2] + 1 ELSE r]
    /\ ret = NoRet
    /\ first = NoRet
    /\ pc = "R273"
    /\ s_arg = <<>> /\ s_begin = <<>> /\ s_range = 1 /\ ranges = <<>> /\ log = <<>>

\* lines 273-288
GetPruningRanges ==
    /\ pc = "R273"
    /\ ret' = get_pruning_ranges(call.px_grad, call.py_grad, call.s_range)
    /\ s_range' = call.s_range
    /\ IF ret'.ok
       THEN /\ s_arg' = ChosenStarts(call.px_grad, call.py_grad, call.s_range)
            /\ s_begin' = adjust_pruning_lower_bound(s_arg', call.s_range)
            /\ ranges' = ret'.val
       ELSE UNCHANGED <<s_arg, s_begin, ranges>>
    /\ pc' = "R288"
    /\ UNCHANGED <<call, first, log>>

\* the symbols of a batch of B sequences of length S over C classes
SymbolsPattern(B, S, C) == [b \in Idx(B) |-> [s \in Idx(S) |-> (b + s) % C]]

\* the caller hands the returned ranges to get_rnnt_logprobs_pruning
PrunedLogprobsOfRanges ==
    /\ pc = "R288"
    /\ ret.ok
    /\ \E term \in Idx(MaxC) :
        LET C == MaxC
            B == D0(call.px_grad)
            S == D1(call.px_grad)
            T == D2(call.px_grad) - 1
            joint == Arange4(1, B, T, call.s_range, C)
            symbols == SymbolsPattern(B, S, C)
        IN  /\ call' = [op |-> "get_rnnt_logprobs_pruning",
                        joint |-> joint,
                        symbols |-> symbols,
                        ranges |-> ret.val,
                        termination_symbol |-> term]
            /\ ret' = get_rnnt_logprobs_pruning(joint, symbols, ret.val, term)
    /\ first' = ret
    /\ pc' = "P425"
    /\ UNCHANGED adjustVars

NextRanges == GetPruningRanges \/ PrunedLogprobsOfRanges

SpecRanges == InitRanges /\ [][NextRanges]_vars

----------------------------------------------------------------------------
(* Properties of adjust_pruning_lower_bound (checked under SpecAdjust).    *)

\* adjust_pruning_lower_bound has returned (line 258) into get_pruning_ranges
AdjustReturned == pc \in {"L287", "L288"}

\* adjacent frames of a (B, T) tensor differ by at least lo and at most hi
StepsWithin(s, lo, hi) ==
    \A b \in DOMAIN s : \A t \in DOMAIN s[b] :
        (t + 1) \in DOMAIN s[b] =>
            /\ lo <= s[b][t + 1] - s[b][t]
            /\ s[b][t + 1] - s[b][t] <= hi

\* the (B, T) tensor ranges[:, :, 0]
FirstOfRanges == [b \in DOMAIN ranges |-> [t \in DOMAIN ranges[b] |-> ranges[b][t][0]]]

\* C1: for every s_range >= 1 and every non-negative s_begin, the output of
\* adjust_pruning_lower_bound, and ranges[:, :, 0] of get_pruning_ranges,
\* is non-decreasing in t and advances by at most s_range - 1 per frame.
C1_WindowStep ==
    /\ AdjustReturned => StepsWithin(s_begin, 0, s_range - 1)
    /\ pc = "L288" => StepsWithin(FirstOfRanges, 0, s_range - 1)

\* C1 witness: an input that jumps by s_range or more between two frames,
\* whose output advances by exactly s_range - 1 there.
C1_Witness ==
    /\ pc = "L288"
    /\ s_range >= 2
    /\ \E b \in DOMAIN s_arg : \E t \in DOMAIN s_arg[b] :
        /\ (t + 1) \in DOMAIN s_arg[b]
        /\ s_arg[b][t + 1] - s_arg[b][t] >= s_range
        /\ ranges[b][t + 1][0] - ranges[b][t][0] = s_range - 1

\* C4: the output of adjust_pruning_lower_bound is 0 at the first frame of
\* every batch, and so is ranges[b, 0, 0] of get_pruning_ranges.
C4_StartsAtZero ==
    /\ AdjustReturned => \A b \in DOMAIN s_begin : s_begin[b][0] = 0
    /\ pc = "L288" => \A b \in DOMAIN ranges : ranges[b][0][0] = 0

\* C4 witness: a batch whose input is positive at the first frame and whose
\* window nevertheless starts at 0.
C4_Witness ==
    /\ pc = "L288"
    /\ \E b \in DOMAIN s_arg : s_arg[b][0] > 0 /\ ranges[b][0][0] = 0

\* the number of monotonic-lower-bound passes among the first n statements
RECURSIVE PassesBefore(_)
PassesBefore(n) ==
    IF n = 0 THEN 0
    ELSE PassesBefore(n - 1) + (IF log[n] = "mono" THEN 1 ELSE 0)

\* C10 as stated: the clamp runs strictly between the two monotonicity
\* passes, i.e. whenever the clamp has run, exactly one pass ran before it,
\* and the second pass runs after it.
C10_ClampBetweenPasses ==
    \A i \in DOMAIN log :
        log[i] = "clamp" => PassesBefore(i - 1) = 1

\* C10 amended: the statements run in the order first monotonicity pass,
\* transform, second monotonicity pass, clamp, inverse transform; the clamp
\* runs after both passes and before the transform back.
C10_ClampAfterSecondPass ==
    /\ \A i \in DOMAIN log :
        log[i] = <<"mono", "transform", "mono", "clamp", "transform", "ranges">>[i]
    /\ \A i \in DOMAIN log :
        log[i] = "clamp" => PassesBefore(i - 1) = 2

\* C10 witness: the clamp has just run, on a batch whose entries were all
\* positive at entry (its transformed first entry was negative), and set
\* that entry to 0.
C10_Witness ==
    /\ pc = "L257"
    /\ Len(log) = 4 /\ log[4] = "clamp"
    /\ \E b \in DOMAIN s_arg :
        /\ \A t \in DOMAIN s_arg[b] : s_arg[b][t] > 0
        /\ s_begin[b][0] = 0

----------------------------------------------------------------------------
(* Properties of the constructors, of pruning and of roll_by_shifts        *)
(* (checked under Spec).                                                   *)

Returned(op) == pc = "ret" /\ call.op = op

\* joint[b, t, i, c] minus the normalizer log(sum over classes of e^joint[b, t, i, .])
Normalized(joint, b, t, i, c) ==
    MinusNorm(Real(joint[b][t][i][c]), LogSumExp(joint[b][t][i]))

\* the value the window of frame t holds for symbol position s, else -infinity
InWindow(joint, rngs, b, t, s, c) ==
    LET s0 == rngs[b][t][0]
    IN  IF s0 <= s /\ s < s0 + D2(joint)
        THEN Normalized(joint, b, t, s - s0, c)
        ELSE NegInf

\* C2: for contiguous windows inside [0, S], the px and py returned by
\* get_rnnt_logprobs_pruning hold each in-window value at its absolute
\* symbol position and -infinity at every out-of-window position.
C2_Placement ==
    (Returned("get_rnnt_logprobs_pruning") /\ ret.ok) =>
        LET joint == call.joint
            B == D0(joint)
            T == D1(joint)
            S == D1(call.symbols)
        IN  /\ \A b \in Idx(B) : \A s \in Idx(S + 1) : \A t \in Idx(T) :
                ret.val.py[b][s][t] =
                    InWindow(joint, call.ranges, b, t, s, call.termination_symbol)
            /\ \A b \in Idx(B) : \A s \in Idx(S) : \A t \in Idx(T) :
                ret.val.px[b][s][t] =
                    InWindow(joint, call.ranges, b, t, s, call.symbols[b][s])

\* the arguments of get_rnnt_logprobs_pruning agree in shape, s_range is
\* S + 1 and every window is 0 .. S
NoPruning ==
    /\ call.op = "get_rnnt_logprobs_pruning"
    /\ D0(call.symbols) = D0(call.joint)
    /\ D0(call.ranges) = D0(call.joint)
    /\ D2(call.joint) = D1(call.symbols) + 1
    /\ \A b \in DOMAIN call.ranges : \A t \in DOMAIN call.ranges[b] :
         \A i \in DOMAIN call.ranges[b][t] : call.ranges[b][t][i] = i

\* C3: with s_range = S + 1 and windows 0 .. S, get_rnnt_logprobs_pruning
\* returns the px and py that get_rnnt_logprobs_joint returns for the same
\* joint (which is then the full joint), symbols and termination symbol.
C3_NoPruningEqualsJoint ==
    (pc = "ret" /\ NoPruning) =>
        ret = get_rnnt_logprobs_joint(call.joint, call.symbols, call.termination_symbol)

\* the B, S, T of a constructor's arguments
ShapeB == IF call.op = "get_rnnt_logprobs" THEN D0(call.am) ELSE D0(call.joint)
ShapeT == IF call.op = "get_rnnt_logprobs" THEN D1(call.am) ELSE D1(call.joint)
ShapeS ==
    CASE call.op = "get_rnnt_logprobs" -> D1(call.lm) - 1
      [] call.op = "get_rnnt_logprobs_joint" -> D2(call.joint) - 1
      [] OTHER -> D1(call.symbols)

Constructors ==
    {"get_rnnt_logprobs", "get_rnnt_logprobs_joint", "get_rnnt_logprobs_pruning"}

\* C5: the px each of the three constructors returns has shape [B, S, T + 1]
\* and px[b, s, T] is -infinity for every b and s.
C5_LastSliceNegInf ==
    (pc = "ret" /\ call.op \in Constructors /\ ret.ok) =>
        LET px == ret.val.px
        IN  /\ DOMAIN px = Idx(ShapeB)
            /\ \A b \in Idx(ShapeB) :
                /\ DOMAIN px[b] = Idx(ShapeS)
                /\ \A s \in Idx(ShapeS) :
                    /\ DOMAIN px[b][s] = Idx(ShapeT + 1)
                    /\ px[b][s][ShapeT] = NegInf

\* C5 witness: get_rnnt_logprobs has returned a px whose last slice is
\* -infinity and whose other entries are finite.
C5_Witness ==
    /\ Returned("get_rnnt_logprobs") /\ ret.ok
    /\ \A b \in Idx(ShapeB) : \A s \in Idx(ShapeS) :
        /\ ret.val.px[b][s][ShapeT] = NegInf
        /\ \A t \in Idx(ShapeT) : ~ret.val.px[b][s][t].inf
    /\ \E b \in Idx(ShapeB) : \E s \in Idx(ShapeS) :
        call.lm[b][s][call.symbols[b][s]] > 0

\* C6: roll_by_shifts returns a tensor of the shape of src with
\* out[b, t, (j + shifts[b, t]) mod S] = src[b, t, j]; every row of out is a
\* permutation of the row of src; the docstring's example rolls as documented.
C6_RollRotatesRight ==
    (Returned("roll_by_shifts")
        /\ D0(call.shifts) = D0(call.src) /\ D1(call.shifts) = D1(call.src)) =>
        /\ ret.ok
        /\ DOMAIN ret.val = DOMAIN call.src
        /\ \A b \in DOMAIN call.src :
            /\ DOMAIN ret.val[b] = DOMAIN call.src[b]
            /\ \A t \in DOMAIN call.src[b] :
                LET S == Size(call.src[b][t])
                IN  /\ DOMAIN ret.val[b][t] = DOMAIN call.src[b][t]
                    /\ \A j \in Idx(S) :
                        ret.val[b][t][(j + call.shifts[b][t]) % S] = call.src[b][t][j]
                    /\ BagOf(ret.val[b][t]) = BagOf(call.src[b][t])
        /\ (call.src = DocSrc /\ call.shifts = DocShift) => ret.val = DocRolled

\* C6 witness: the docstring's example has been rolled to the documented rows.
C6_Witness ==
    /\ Returned("roll_by_shifts")
    /\ call.src = DocSrc /\ call.shifts = DocShift
    /\ ret = Ok(DocRolled)

\* the arguments of pruning agree in batch, frames and classes
PruningShapesAgree ==
    /\ D0(call.am) = D0(call.ranges) /\ D0(call.lm) = D0(call.ranges)
    /\ D1(call.am) = D1(call.ranges)
    /\ D2(call.am) = D2(call.lm)

\* pruning has returned am_pruning and lm_pruning of shape [B, T, s_range, C]
\* with am_pruning[b, t, i, c] = am[b, t, c] and
\* lm_pruning[b, t, i, c] = lm[b, ranges[b, t, i], c]
PruningSelects ==
    (Returned("pruning") /\ PruningShapesAgree) =>
        LET B == D0(call.ranges)
            T == D1(call.ranges)
            R == D2(call.ranges)
            C == D2(call.lm)
            Shape4(x) ==
                /\ DOMAIN x = Idx(B)
                /\ \A b \in Idx(B) :
                    /\ DOMAIN x[b] = Idx(T)
                    /\ \A t \in Idx(T) :
                        /\ DOMAIN x[b][t] = Idx(R)
                        /\ \A i \in Idx(R) : DOMAIN x[b][t][i] = Idx(C)
        IN  /\ ret.ok
            /\ Shape4(ret.val.am_pruning)
            /\ Shape4(ret.val.lm_pruning)
            /\ \A b \in Idx(B) : \A t \in Idx(T) : \A i \in Idx(R) : \A c \in Idx(C) :
                /\ ret.val.am_pruning[b][t][i][c] = call.am[b][t][c]
                /\ ret.val.lm_pruning[b][t][i][c] = call.lm[b][call.ranges[b][t][i]][c]

ShapeViolation ==
    CASE call.op = "get_rnnt_logprobs" ->
            \/ D0(call.lm) # D0(call.am)
            \/ D2(call.lm) # D2(call.am)
            \/ D0(call.symbols) # D0(call.am)
            \/ D1(call.symbols) # D1(call.lm) - 1
      [] call.op = "get_rnnt_logprobs_joint" ->
            \/ D0(call.symbols) # D0(call.joint)
            \/ D1(call.symbols) # D2(call.joint) - 1
      [] call.op = "get_rnnt_logprobs_pruning" ->
            \/ D0(call.symbols) # D0(call.joint)
            \/ D0(call.ranges) # D0(call.joint)
      [] call.op = "pruning" ->
            \/ D0(call.am) # D0(call.ranges)
            \/ D0(call.lm) # D0(call.ranges)
            \/ D2(call.am) # D2(call.lm)
      [] OTHER -> FALSE

\* the line of the first statement of each operation that computes on the
\* argument tensors
FirstComputation ==
    CASE call.op = "get_rnnt_logprobs" -> 71
      [] call.op = "get_rnnt_logprobs_joint" -> 169
      [] call.op = "get_rnnt_logprobs_pruning" -> 381
      [] call.op = "pruning" -> 316
      [] OTHER -> 351

\* C8: a call whose arguments carry a shape violation raises, at the latest
\* in its first computing statement, and returns no result.
C8_FailFast ==
    (pc = "ret" /\ ShapeViolation) =>
        /\ ~ret.ok
        /\ ret.val[2] <= FirstComputation

----------------------------------------------------------------------------
(* Shift invariance of get_rnnt_logprobs (checked under SpecShift).        *)

\* C9: after a constant has been added to the class logits of rows of lm
\* and of am, get_rnnt_logprobs (inside rnnt_loss_simple) returns the px and
\* py it returned before; the loss is a function of px, py and boundary.
C9_ShiftInvariant == pc = "T43" => (ret.ok /\ ret = first)

\* C9 witness: the second call has returned the first call's px and py
\* although a row of lm and a row of am were lowered below every logit of
\* the original tensors (whose logits are all non-negative).
C9_Witness ==
    /\ pc = "T43" /\ ret.ok /\ ret = first
    /\ \E b \in DOMAIN call.lm : \E s \in DOMAIN call.lm[b] : \E c \in DOMAIN call.lm[b][s] :
        call.lm[b][s][c] < 0
    /\ \E b \in DOMAIN call.am : \E t \in DOMAIN call.am[b] : \E c \in DOMAIN call.am[b][t] :
        call.am[b][t][c] < 0

----------------------------------------------------------------------------
(* Properties of get_pruning_ranges (checked under SpecRanges).            *)

RECURSIVE WindowMass(_, _, _, _, _, _)
\* the sum over the r positions q from i on of px_grad[b, q, t] + py_grad[b, q, t]
WindowMass(px_grad, py_grad, b, i, t, r) ==
    IF r = 0 THEN 0
    ELSE px_grad[b][i][t] + py_grad[b][i][t]
         + WindowMass(px_grad, py_grad, b, i + 1, t, r - 1)

\* i is a window start of the largest mass at (b, t), and the smallest such
BestStart(px_grad, py_grad, b, i, t, r) ==
    \A j \in 0 .. (D1(px_grad) - r) :
        LET mi == WindowMass(px_grad, py_grad, b, i, t, r)
            mj == WindowMass(px_grad, py_grad, b, j, t, r)
        IN  /\ mj <= mi
            /\ mj = mi => i <= j

\* get_pruning_ranges has returned ranges
RangesReturned == pc = "R288" /\ call.op = "get_pruning_ranges" /\ ret.ok

\* C11: the window start get_pruning_ranges chooses before the adjustment is,
\* for every b and every t in [0, T), the smallest i in [0, S - s_range] of
\* the largest mass sum over q in [i, i + s_range - 1] of px_grad[b, q, t] +
\* py_grad[b, q, t]; the returned ranges[b, t, k] is s_begin[b, t] + k for k
\* in [0, s_range), s_begin being that choice after adjust_pruning_lower_bound.
C11_ArgmaxWindow ==
    RangesReturned =>
        LET px_grad == call.px_grad
            py_grad == call.py_grad
            r == call.s_range
            B == D0(px_grad)
            S == D1(px_grad)
            T == D2(px_grad) - 1
            best == [b \in Idx(B) |-> [t \in Idx(T) |->
                        CHOOSE i \in 0 .. (S - r) : BestStart(px_grad, py_grad, b, i, t, r)]]
            adjusted == adjust_pruning_lower_bound(best, r)
        IN  /\ s_arg = best
            /\ DOMAIN ret.val = Idx(B)
            /\ \A b \in Idx(B) :
                /\ DOMAIN ret.val[b] = Idx(T)
                /\ \A t \in Idx(T) :
                    /\ DOMAIN ret.val[b][t] = Idx(r)
                    /\ \A k \in Idx(r) : ret.val[b][t][k] = adjusted[b][t] + k

\* C11 witness: get_pruning_ranges has returned; at one frame two window
\* starts tie for the largest mass and the lower one was chosen, at one frame
\* the chosen start is not 0, and the adjustment moved a start.
C11_Witness ==
    /\ RangesReturned
    /\ \E b \in DOMAIN s_arg : \E t \in DOMAIN s_arg[b] :
       \E j \in 0 .. (D1(call.px_grad) - call.s_range) :
          /\ s_arg[b][t] < j
          /\ WindowMass(call.px_grad, call.py_grad, b, j, t, call.s_range)
             = WindowMass(call.px_grad, call.py_grad, b, s_arg[b][t], t, call.s_range)
    /\ \E b \in DOMAIN s_arg : \E t \in DOMAIN s_arg[b] : s_arg[b][t] > 0
    /\ s_begin # s_arg
    /\ \A b \in DOMAIN s_arg : \A t \in DOMAIN s_arg[b] : ret.val[b][t][0] = s_begin[b][t]

\* every entry of a ranges tensor is one of the positions 0 .. S - 1
RangesBelow(rngs, S) ==
    \A b \in DOMAIN rngs : \A t \in DOMAIN rngs[b] : \A i \in DOMAIN rngs[b][t] :
        0 <= rngs[b][t][i] /\ rngs[b][t][i] <= S - 1

\* C12: for 1 <= s_range <= S every entry of the ranges get_pruning_ranges
\* returns is in [0, S - 1]; with these ranges get_rnnt_logprobs_pruning
\* returns, its circular shift does not wrap (every in-window value of px and
\* py is at its absolute symbol position, every other entry is -infinity),
\* and py[b, S, t] is -infinity for every b and t.
C12_RangesInside ==
    /\ RangesReturned => RangesBelow(ret.val, D1(call.px_grad))
    /\ pc = "P425" =>
        LET joint == call.joint
            B == D0(joint)
            T == D1(joint)
            S == D1(call.symbols)
        IN  /\ ret.ok
            /\ RangesBelow(call.ranges, S)
            /\ \A b \in Idx(B) : \A s \in Idx(S + 1) : \A t \in Idx(T) :
                ret.val.py[b][s][t] =
                    InWindow(joint, call.ranges, b, t, s, call.termination_symbol)
            /\ \A b \in Idx(B) : \A s \in Idx(S) : \A t \in Idx(T) :
                ret.val.px[b][s][t] =
                    InWindow(joint, call.ranges, b, t, s, call.symbols[b][s])
            /\ \A b \in Idx(B) : \A t \in Idx(T) : ret.val.py[b][S][t] = NegInf

\* C12 witness: get_rnnt_logprobs_pruning has returned for ranges of
\* get_pruning_ranges in which a window narrower than S starts above 0 and
\* ends at the position S - 1; px holds a finite value there and py[., S, .]
\* is -infinity.
C12_Witness ==
    /\ pc = "P425" /\ ret.ok /\ first.ok /\ call.ranges = first.val
    /\ D2(call.joint) < D1(call.symbols)
    /\ \E b \in DOMAIN call.ranges : \E t \in DOMAIN call.ranges[b] :
        /\ call.ranges[b][t][0] > 0
        /\ call.ranges[b][t][D2(call.joint) - 1] = D1(call.symbols) - 1
        /\ ~ret.val.px[b][D1(call.symbols) - 1][t].inf
        /\ ret.val.py[b][D1(call.symbols)][t] = NegInf

====
